---- MODULE Spec2Model ----
(***************************************************************************)
(* A model of the buy-me-a-coffee client (src/src/lib.rs): the Client      *)
(* value, its six endpoint methods, Client::get's classification of a      *)
(* response, the serde decoding of UntaggedResult<T>, and the Debug        *)
(* formatting of a Client.                                                 *)
(*                                                                         *)
(* Text that the code inspects byte by byte (header values, the token, the *)
(* Debug output) is a sequence of byte or code point numbers.  Text that   *)
(* the code only carries around (JSON keys, JSON strings, paths) is a      *)
(* TLA+ string.                                                            *)
(***************************************************************************)
EXTENDS Integers, Sequences, FiniteSets, TLC

VARIABLES
    client,     \* the Client value: [client |-> transport handle, token |-> text]
    calls,      \* per caller: the position of its call of an endpoint method
    wire,       \* per caller: the response travelling back to it, or Nothing
    log,        \* how many calls have returned Ok and how many an Err so far
    budget,     \* how many more calls the callers will start
    debugOut    \* the text of the last Debug formatting of the client, or Nothing

vars == <<client, calls, wire, log, budget, debugOut>>

(***************************************************************************)
(* Bounds of the model.                                                    *)
(***************************************************************************)
NCallers == 2       \* concurrent callers sharing one Client
MaxCalls == 3       \* calls started in one behaviour of SpecConc
MaxTokenLen == 3    \* characters of a token in SpecDebug

Nothing == [k |-> "None"]

(***************************************************************************)
(* Text as numbers.                                                        *)
(***************************************************************************)
\* "html"
html == <<104, 116, 109, 108>>
\* "text/html"
text_html == <<116, 101, 120, 116, 47, 104, 116, 109, 108>>
\* "text/html; charset=UTF-8"
text_html_charset ==
    text_html \o <<59, 32, 99, 104, 97, 114, 115, 101, 116, 61, 85, 84, 70, 45, 56>>
\* "TEXT/HTML"
TEXT_HTML == <<84, 69, 88, 84, 47, 72, 84, 77, 76>>
\* "text/html" followed by the byte 0xE9, which is not visible ASCII
text_html_opaque == text_html \o <<233>>
\* "application/json"
application_json ==
    <<97, 112, 112, 108, 105, 99, 97, 116, 105, 111, 110, 47, 106, 115, 111, 110>>
\* "text/plain"
text_plain == <<116, 101, 120, 116, 47, 112, 108, 97, 105, 110>>

\* A header value: its bytes.
HeaderValue(bytes) == [k |-> "value", bytes |-> bytes]

\* str::contains: `needle` occurs in `hay` as a contiguous run.
contains(hay, needle) ==
    \E i \in 1..(Len(hay) - Len(needle) + 1) :
        SubSeq(hay, i, i + Len(needle) - 1) = needle

\* HeaderValue::to_str succeeds when every byte is visible ASCII or a tab.
to_str_ok(value) ==
    \A i \in 1..Len(value) :
        (value[i] >= 32 /\ value[i] < 127) \/ value[i] = 9

\* The condition of the `if` at lines 125-135: the Content-Type header is
\* there, reads as text, and the text contains "html"; anything else is false
\* (and_then / ok / unwrap_or_default).
is_html(content_type) ==
    IF content_type = Nothing THEN FALSE
    ELSE IF ~to_str_ok(content_type.bytes) THEN FALSE
    ELSE contains(content_type.bytes, html)

\* A bug: the upper end of the 4xx range is left out.
is_client_error_narrow(status) == status >= 400 /\ status < 499

\* StatusCode::is_client_error
is_client_error(status) == status >= 400 /\ status < 500

UNAUTHORIZED == 401

(***************************************************************************)
(* JSON values, as serde_json hands them to serde.  An object is the       *)
(* sequence of its <<key, value>> pairs in document order, so that a key   *)
(* may occur twice.                                                        *)
(***************************************************************************)
JNull == [k |-> "null"]
JBool(b) == [k |-> "bool", b |-> b]
JNum(n) == [k |-> "num", n |-> n]
JFloat == [k |-> "float"]
JStr(s) == [k |-> "str", s |-> s]
JArr(a) == [k |-> "arr", a |-> a]
JObj(o) == [k |-> "obj", o |-> o]
\* A body that is not JSON at all.
Malformed == [k |-> "malformed"]

(***************************************************************************)
(* The types the crate deserializes, and their field tables.               *)
(***************************************************************************)
TUInt(bits) == [t |-> "uint", bits |-> bits]
TString == [t |-> "String"]
TBool == [t |-> "bool"]
TOption(x) == [t |-> "Option", of |-> x]
TVec(x) == [t |-> "Vec", of |-> x]
TStruct(name) == [t |-> "struct", name |-> name]
TPage(x) == [t |-> "Page", of |-> x]

\* A field: its Rust name, the JSON keys it answers to (its name or rename,
\* and its aliases), its type, and whether it is #[serde(default)].
Field(f, key, ty) == [field |-> f, keys |-> {key}, ty |-> ty, dflt |-> FALSE]
Aliased(f, key, alias, ty) ==
    [field |-> f, keys |-> {key, alias}, ty |-> ty, dflt |-> FALSE]
Defaulted(f, key, ty) == [field |-> f, keys |-> {key}, ty |-> ty, dflt |-> TRUE]

\* A bug: the message is read under `reason` alone, the alias is forgotten.
ServerError_without_alias == <<
    Field("error_code", "error_code", TOption(TUInt(16))),
    Field("reason", "reason", TString) >>

ServerError == <<
    Field("error_code", "error_code", TOption(TUInt(16))),
    Aliased("reason", "reason", "error", TString) >>

Page(x) == <<
    Field("current_page", "current_page", TUInt(16)),
    Field("data", "data", TVec(x)),
    Field("from", "from", TUInt(16)),
    Field("last_page", "last_page", TUInt(16)),
    Field("per_page", "per_page", TUInt(16)),
    Field("to", "to", TUInt(16)),
    Field("total", "total", TUInt(16)) >>

Membership == <<
    Field("id", "subscription_id", TUInt(32)),
    Field("cancelled_on", "subscription_cancelled_on", TOption(TString)),
    Field("created_on", "subscription_created_on", TString),
    Field("updated_on", "subscription_updated_on", TString),
    Field("current_period_start", "subscription_current_period_start", TString),
    Field("current_period_end", "subscription_current_period_end", TString),
    Field("coffee_price", "subscription_coffee_price", TString),
    Field("coffee_num", "subscription_coffee_num", TUInt(16)),
    Defaulted("is_cancelled", "subscription_is_cancelled", TBool),
    Defaulted("is_cancelled_at_period_end",
              "subscription_is_cancelled_at_period_end", TBool),
    Field("currency", "subscription_currency", TString),
    Field("message", "subscription_message", TOption(TString)),
    Field("message_visibility", "message_visibility", TUInt(8)),
    Field("duration_type", "subscription_duration_type", TString),
    Field("referer", "referer", TOption(TString)),
    Field("country", "country", TOption(TString)),
    Field("transaction_id", "transaction_id", TString),
    Field("payer_email", "payer_email", TString),
    Field("payer_name", "payer_name", TString) >>

Support == <<
    Field("id", "support_id", TUInt(32)),
    Field("note", "support_note", TOption(TString)),
    Field("coffee_num", "support_coffees", TUInt(16)),
    Field("transaction_id", "transaction_id", TString),
    Field("visibility", "support_visibility", TUInt(8)),
    Field("created_on", "support_created_on", TString),
    Field("updated_on", "support_updated_on", TString),
    Field("transfer_id", "transfer_id", TOption(TString)),
    Field("supporter_name", "supporter_name", TOption(TString)),
    Field("coffee_price", "support_coffee_price", TString),
    Field("email", "support_email", TString),
    Defaulted("is_refunded", "is_refunded", TBool),
    Field("currency", "support_currency", TString),
    Field("note_pinned", "support_note_pinned", TUInt(8)),
    Field("referer", "referer", TOption(TString)),
    Field("country", "country", TOption(TString)),
    Field("payer_email", "payer_email", TString),
    Field("payment_platform", "payment_platform", TString),
    Field("payer_name", "payer_name", TString) >>

Purchase == <<
    Field("id", "purchase_id", TUInt(32)),
    Field("created_on", "purchased_on", TString),
    Field("updated_on", "purchase_updated_on", TString),
    Field("is_revoked", "purchase_is_revoked", TBool),
    Field("amount", "purchase_amount", TString),
    Field("currency", "purchase_currency", TString),
    Field("question", "purchase_question", TString),
    Field("payer_email", "payer_email", TString),
    Field("payer_name", "payer_name", TString),
    Field("extra", "extra", TStruct("Extra")) >>

Extra == <<
    Field("id", "reward_id", TUInt(32)),
    Field("title", "reward_title", TString),
    Field("description", "reward_description", TString),
    Field("confirmation_message", "reward_confirmation_message", TString),
    Field("question", "reward_question", TString),
    Field("used", "reward_used", TUInt(8)),
    Field("created_on", "reward_created_on", TString),
    Field("updated_on", "reward_updated_on", TString),
    Field("deleted_on", "reward_deleted_on", TOption(TString)),
    Field("is_active", "reward_is_active", TBool),
    Field("image", "reward_image", TString),
    Field("slots", "reward_slots", TUInt(8)),
    Field("coffee_price", "reward_coffee_price", TString),
    Field("order", "reward_order", TUInt(8)) >>

\* The field table of a struct type.
Fields(ty) ==
    IF ty.t = "Page" THEN Page(ty.of)
    ELSE CASE ty.name = "ServerError" -> ServerError
           [] ty.name = "Membership" -> Membership
           [] ty.name = "Support" -> Support
           [] ty.name = "Purchase" -> Purchase
           [] ty.name = "Extra" -> Extra

(***************************************************************************)
(* serde's derived Deserialize, as it runs on the buffered content of an   *)
(* untagged enum.  A decode yields [ok |-> TRUE, val |-> v] or DecErr.     *)
(* Decoded values: a number, string or bool is its JSON value; None is     *)
(* Nothing and Some(v) is v; a Vec is [k |-> "vec", a |-> items]; a struct *)
(* is [k |-> "struct", f |-> the function from Rust field names to values].*)
(* A u32 is not range-checked above 2^31 - 1, the largest number here.     *)
(***************************************************************************)
DecErr == [ok |-> FALSE]
DecOk(v) == [ok |-> TRUE, val |-> v]

\* The per-element results of a decode, each computed once.
Tuple(f) == f \o << >>

\* A bug: an absent flag reads as true.
Default_true(ty) == JBool(TRUE)

\* Default::default() of a #[serde(default)] field; all of them are bool.
Default(ty) == JBool(FALSE)

\* The struct built from the per-field results rs (all ok) of table fs.
Build(fs, rs) ==
    [k |-> "struct",
     f |-> [n \in {fs[i].field : i \in 1..Len(fs)} |->
              rs[CHOOSE i \in 1..Len(fs) : fs[i].field = n].val]]

RECURSIVE Deserialize(_, _)
RECURSIVE visit_map(_, _)
RECURSIVE visit_seq(_, _)

\* A struct from a JSON object: every pair is visited; a key that names a
\* field (by its rename or alias) fills it, and filling a field twice is the
\* error `duplicate field`; any other key is ignored.  A field no key filled
\* is None when it is an Option, its default when #[serde(default)], and the
\* error `missing field` otherwise.
visit_map(fs, o) ==
    LET hits(i) == {j \in 1..Len(o) : o[j][1] \in fs[i].keys}
        one(i) ==
            IF Cardinality(hits(i)) > 1 THEN DecErr
            ELSE IF Cardinality(hits(i)) = 1
                 THEN Deserialize(fs[i].ty, o[CHOOSE j \in hits(i) : TRUE][2])
            ELSE IF fs[i].ty.t = "Option" THEN DecOk(Nothing)
            ELSE IF fs[i].dflt THEN DecOk(Default(fs[i].ty))
            ELSE DecErr
        rs == Tuple([i \in 1..Len(fs) |-> one(i)])
    IN  IF \A i \in 1..Len(fs) : rs[i].ok THEN DecOk(Build(fs, rs)) ELSE DecErr

\* A struct from a JSON array: the fields in declaration order; a missing
\* element is the error `invalid length` unless the field is
\* #[serde(default)]; elements left over are an error too.
visit_seq(fs, a) ==
    LET one(i) ==
            IF i <= Len(a) THEN Deserialize(fs[i].ty, a[i])
            ELSE IF fs[i].dflt THEN DecOk(Default(fs[i].ty))
            ELSE DecErr
        rs == Tuple([i \in 1..Len(fs) |-> one(i)])
    IN  IF Len(a) <= Len(fs) /\ \A i \in 1..Len(fs) : rs[i].ok
        THEN DecOk(Build(fs, rs))
        ELSE DecErr

Deserialize(ty, j) ==
    CASE ty.t = "uint" ->
            IF j.k = "num" /\ j.n >= 0 /\ (ty.bits >= 31 \/ j.n < 2 ^ ty.bits)
            THEN DecOk(j) ELSE DecErr
      [] ty.t = "String" -> IF j.k = "str" THEN DecOk(j) ELSE DecErr
      [] ty.t = "bool" -> IF j.k = "bool" THEN DecOk(j) ELSE DecErr
      [] ty.t = "Option" ->
            IF j.k = "null" THEN DecOk(Nothing) ELSE Deserialize(ty.of, j)
      [] ty.t = "Vec" ->
            IF j.k # "arr" THEN DecErr
            ELSE LET rs == Tuple([i \in 1..Len(j.a) |-> Deserialize(ty.of, j.a[i])])
                 IN  IF \A i \in 1..Len(j.a) : rs[i].ok
                     THEN DecOk([k |-> "vec", a |-> [i \in 1..Len(j.a) |-> rs[i].val]])
                     ELSE DecErr
      [] ty.t \in {"struct", "Page"} ->
            IF j.k = "obj" THEN visit_map(Fields(ty), j.o)
            ELSE IF j.k = "arr" THEN visit_seq(Fields(ty), j.a)
            ELSE DecErr

(***************************************************************************)
(* The result of a call.                                                   *)
(***************************************************************************)
\* Error::Reqwest: the transport failed or the body did not decode.
ErrReqwest(cause) == [kind |-> "Reqwest", cause |-> cause]
\* Error::Client(StatusCode)
ErrClient(status) == [kind |-> "Client", status |-> status]
\* Error::Server(ServerError)
ErrServer(e) ==
    [kind |-> "Server", error_code |-> e.f.error_code, reason |-> e.f.reason]
RetOk(t) == [kind |-> "Ok", val |-> t]

\* A bug: the variants are declared the other way round, Ok(T) first.
UntaggedResult_ok_first(T, j) ==
    LET e == Deserialize(TStruct("ServerError"), j)
        t == Deserialize(T, j)
    IN  IF t.ok THEN [ok |-> TRUE, variant |-> "Ok", val |-> t.val]
        ELSE IF e.ok THEN [ok |-> TRUE, variant |-> "Err", val |-> e.val]
        ELSE DecErr

\* #[serde(untagged)] enum UntaggedResult<T> { Err(ServerError), Ok(T) }: the
\* variants are tried in declaration order against the buffered content and
\* the first that decodes wins; none is the error `data did not match any
\* variant`.
UntaggedResult(T, j) ==
    LET e == Deserialize(TStruct("ServerError"), j)
        t == Deserialize(T, j)
    IN  IF e.ok THEN [ok |-> TRUE, variant |-> "Err", val |-> e.val]
        ELSE IF t.ok THEN [ok |-> TRUE, variant |-> "Ok", val |-> t.val]
        ELSE DecErr

\* impl Into<Result<T>> for UntaggedResult<T>
into(u) == IF u.variant = "Err" THEN ErrServer(u.val) ELSE RetOk(u.val)

\* A bug: a body that does not decode is reported as a server fault.
json_fault_on_decode_error(T, body) ==
    LET fault == [kind |-> "Server", error_code |-> Nothing,
                  reason |-> JStr("undecodable")]
    IN  IF body.k = "aborted" THEN ErrReqwest("body")
        ELSE IF body.k = "malformed" THEN fault
        ELSE LET u == UntaggedResult(T, body)
             IN  IF u.ok THEN into(u) ELSE fault

\* Response::json::<UntaggedResult<T>>() followed by `?` and into(): the body
\* is read (which can fail), parsed as JSON, decoded.
json(T, body) ==
    IF body.k = "aborted" THEN ErrReqwest("body")
    ELSE IF body.k = "malformed" THEN ErrReqwest("decode")
    ELSE LET u == UntaggedResult(T, body)
         IN  IF u.ok THEN into(u) ELSE ErrReqwest("decode")

\* What request.send().await gave: a response, or the transport's error.
SendError == [k |-> "error"]
Response(status, content_type, body) ==
    [k |-> "response", status |-> status, content_type |-> content_type,
     body |-> body]

\* A bug: the status is never looked at.
classify_without_status(sent, T) ==
    IF sent.k = "error" THEN ErrReqwest("send")
    ELSE IF is_html(sent.content_type) THEN ErrClient(UNAUTHORIZED)
    ELSE json(T, sent.body)

\* A bug: once a call has failed, the client fails every later call.
classify_poisoned(sent, T) ==
    IF log.err > 0 THEN ErrReqwest("poisoned")
    ELSE IF sent.k = "error" THEN ErrReqwest("send")
    ELSE IF is_html(sent.content_type) THEN ErrClient(UNAUTHORIZED)
    ELSE IF is_client_error(sent.status) THEN ErrClient(sent.status)
    ELSE json(T, sent.body)

\* Client::get from line 119 on, for what `send` gave and the target type T.
classify(sent, T) ==
    IF sent.k = "error" THEN ErrReqwest("send")
    ELSE IF is_html(sent.content_type) THEN ErrClient(UNAUTHORIZED)
    ELSE IF is_client_error(sent.status) THEN ErrClient(sent.status)
    ELSE json(T, sent.body)

(***************************************************************************)
(* The Client and its requests.                                            *)
(***************************************************************************)
PREFIX == "https://developers.buymeacoffee.com/api"
USER_AGENT_VALUE == "buy-me-a-coffee-rs/0.1.0"

\* Client::new: a fresh transport handle and the token's text.
new(token) == [client |-> "reqwest::Client", token |-> token]

\* enum MemberStatus, and its serialization (rename_all = "lowercase")
MemberStatus == {"Active", "Inactive", "All"}
serialize(status) ==
    CASE status = "Active" -> "active"
      [] status = "Inactive" -> "inactive"
      [] status = "All" -> "all"

\* The page numbers and identifiers callers pass.
Pages == {1, 2}
Ids == {42}
Idle == [pc |-> "idle"]

\* Client::get, lines 111-117: a GET of PREFIX + endpoint with the client's
\* token as bearer, the user agent, and the query modify_request adds.
request(self, endpoint, query) ==
    [method |-> "GET", url |-> <<PREFIX, endpoint>>, bearer_auth |-> self.token,
     user_agent |-> USER_AGENT_VALUE, query |-> query]

\* Caller c is not inside a call, and will make another.
ready(c) == budget > 0 /\ calls[c].pc \in {"idle", "done"}

\* Client::get up to `request.send()`: caller c's request leaves, and c waits.
send(c, name, endpoint, query, T) ==
    /\ calls' = [calls EXCEPT ![c] =
                    [pc |-> "sent", method |-> name, T |-> T,
                     req |-> request(client, endpoint, query)]]
    /\ budget' = budget - 1
    /\ UNCHANGED <<client, wire, log, debugOut>>

members(c) ==
    /\ ready(c)
    /\ \E status \in MemberStatus, page \in Pages :
            send(c, "members", <<"/v1/subscriptions">>,
                 << <<"status", serialize(status)>>, <<"page", page>> >>,
                 TPage(TStruct("Membership")))

membership(c) ==
    /\ ready(c)
    /\ \E id \in Ids :
            send(c, "membership", <<"/v1/subscriptions/", id>>, << >>,
                 TStruct("Membership"))

supporters(c) ==
    /\ ready(c)
    /\ \E page \in Pages :
            send(c, "supporters", <<"/v1/supporters">>, << <<"page", page>> >>,
                 TPage(TStruct("Support")))

support(c) ==
    /\ ready(c)
    /\ \E id \in Ids :
            send(c, "support", <<"/v1/supporters/", id>>, << >>, TStruct("Support"))

extras(c) ==
    /\ ready(c)
    /\ \E page \in Pages :
            send(c, "extras", <<"/v1/extras">>, << <<"page", page>> >>,
                 TPage(TStruct("Purchase")))

extra(c) ==
    /\ ready(c)
    /\ \E id \in Ids :
            send(c, "extra", <<"/v1/extras/", id>>, << >>, TStruct("Purchase"))

\* A bug: the callers share one slot for the response that came last.
ResponseOf_shared(c) ==
    wire[CHOOSE d \in DOMAIN wire :
            wire[d] # Nothing /\ \A e \in DOMAIN wire : wire[e] # Nothing => d >= e]

\* What `request.send().await` yields to caller c: the response that came
\* back for c's own request.
ResponseOf(c) == wire[c]

\* Client::get from the completion of `send` to its return: caller c's call
\* ends with the classification of what came back.
Receive(c) ==
    /\ calls[c].pc = "sent"
    /\ wire[c] # Nothing
    /\ LET sent == ResponseOf(c)
           result == classify(sent, calls[c].T)
       IN  /\ calls' = [calls EXCEPT ![c] =
                           [pc |-> "done", method |-> calls[c].method,
                            T |-> calls[c].T, req |-> calls[c].req,
                            sent |-> sent, result |-> result]]
           /\ log' = IF result.kind = "Ok"
                     THEN [log EXCEPT !.ok = @ + 1]
                     ELSE [log EXCEPT !.err = @ + 1]
    /\ wire' = [wire EXCEPT ![c] = Nothing]
    /\ UNCHANGED <<client, budget, debugOut>>

(***************************************************************************)
(* impl Debug for Client.  A token is a sequence of code points.           *)
(***************************************************************************)
STAR == 42
QUOTE == 34

\* char::len_utf8
len_utf8(ch) ==
    IF ch < 128 THEN 1 ELSE IF ch < 2048 THEN 2 ELSE IF ch < 65536 THEN 3 ELSE 4

\* String::len: the length in bytes
RECURSIVE len(_)
len(s) == IF s = << >> THEN 0 ELSE len_utf8(Head(s)) + len(Tail(s))

\* String::from_iter(vec!['*'; n])
stars(n) == [i \in 1..n |-> STAR]

\* "Client { client: "
debug_open == <<67, 108, 105, 101, 110, 116, 32, 123, 32,
                99, 108, 105, 101, 110, 116, 58, 32>>
\* The Debug text of the transport handle, which is reqwest's: its struct
\* name, "Client", stands for it.
debug_handle == <<67, 108, 105, 101, 110, 116>>
\* ", token: "
debug_token == <<44, 32, 116, 111, 107, 101, 110, 58, 32>>
\* " }"
debug_close == <<32, 125>>

\* <String as Debug>::fmt of a text with nothing to escape
debug_str(s) == <<QUOTE>> \o s \o <<QUOTE>>

\* A bug: one star per character instead of one per byte.
masked_per_char(self) == stars(Len(self.token))

\* The `token` field as line 93 passes it to the formatter.
masked(self) == stars(len(self.token))

\* <Client as Debug>::fmt with `{:?}`
fmt(self) ==
    debug_open \o debug_handle \o debug_token \o debug_str(masked(self))
        \o debug_close

\* A caller formats the client for debugging.
Debug ==
    /\ debugOut' = [k |-> "text", text |-> fmt(client)]
    /\ UNCHANGED <<client, calls, wire, log, budget>>

(***************************************************************************)
(* What the server may send back.  The bodies for a target type are built  *)
(* from one complete body of that type, changed in one place at a time,    *)
(* and from bodies in and around the error shape.                          *)
(***************************************************************************)
\* The JSON key a field is serialized under (its rename, not an alias).
Key(fld) == IF "reason" \in fld.keys THEN "reason" ELSE CHOOSE key \in fld.keys : TRUE

\* A complete JSON value of type ty: field number i of a struct sampled with
\* `seed` holds the number seed + i, the text of its own key, or true.
RECURSIVE Sample(_, _, _)
Sample(ty, key, seed) ==
    CASE ty.t = "uint" -> JNum(seed)
      [] ty.t = "String" -> JStr(key)
      [] ty.t = "bool" -> JBool(TRUE)
      [] ty.t = "Option" -> Sample(ty.of, key, seed)
      [] ty.t = "Vec" ->
            JArr(<<Sample(ty.of, key, seed), Sample(ty.of, key, seed + 1)>>)
      [] ty.t \in {"struct", "Page"} ->
            LET fs == Fields(ty)
            IN  JObj([i \in 1..Len(fs) |->
                        <<Key(fs[i]), Sample(fs[i].ty, Key(fs[i]), seed + i)>>])

Without(o, i) == SubSeq(o, 1, i - 1) \o SubSeq(o, i + 1, Len(o))
With(o, i, v) == [o EXCEPT ![i] = <<o[i][1], v>>]
Twice(o, i) == Append(o, o[i])
Reverse(o) == [i \in 1..Len(o) |-> o[Len(o) + 1 - i]]

\* Values put in place of a field's own: each is right for some field types
\* and wrong for others.
Replacements == {JNull, JNum(70000), JStr("other"), JBool(FALSE), JFloat}

\* Pairs added to a complete body.
Additions == {
    << <<"reason", JStr("also an error")>> >>,
    << <<"error", JStr("also an error")>> >>,
    << <<"reason", JStr("a")>>, <<"error", JStr("b")>> >>,
    << <<"reason", JNum(1)>> >>,
    << <<"error_code", JNum(3001)>> >>,
    << <<"error_code", JNum(3001)>>, <<"error", JStr("also an error")>> >>,
    << <<"unknown", JNull>> >> }

SuccessBodies(T) ==
    LET base == Sample(T, "", 1).o
        n == Len(base)
    IN  {JObj(base), JObj(Reverse(base)),
         JArr([i \in 1..n |-> base[i][2]]),
         JArr([i \in 1..(n - 1) |-> base[i][2]])}
        \cup {JObj(Without(base, i)) : i \in 1..n}
        \cup {JObj(Twice(base, i)) : i \in 1..n}
        \cup {JObj(With(base, i, v)) : i \in 1..n, v \in Replacements}
        \cup {JObj(base \o more) : more \in Additions}
        \cup {JObj(more \o base) : more \in Additions}
        \cup (IF T.t # "Page" THEN {}
              ELSE LET item == base[2][2].a[1]
                   IN  {JObj(With(base, 2, JArr(<< >>))),
                        JObj(With(base, 2, JArr(<<item>>))),
                        JObj(With(base, 2,
                                  JArr(<<item, JObj(Without(item.o, 1))>>)))})

ErrorBodies == {
    JObj(<< <<"error_code", JNum(3001)>>, <<"error", JStr("No subscriptions")>> >>),
    JObj(<< <<"reason", JStr("No supporters")>> >>),
    JObj(<< <<"error", JStr("No extra purchases")>>, <<"error_code", JNull>> >>),
    JObj(<< <<"reason", JStr("x")>>, <<"error_code", JNum(65535)>> >>),
    JObj(<< <<"reason", JStr("x")>>, <<"error_code", JNum(65536)>> >>),
    JObj(<< <<"reason", JStr("x")>>, <<"error_code", JNum(-1)>> >>),
    JObj(<< <<"reason", JStr("x")>>, <<"error_code", JStr("3001")>> >>),
    JObj(<< <<"reason", JStr("x")>>, <<"error_code", JFloat>> >>),
    JObj(<< <<"reason", JStr("x")>>, <<"unknown", JNum(1)>> >>),
    JObj(<< <<"reason", JNum(5)>> >>),
    JObj(<< <<"reason", JNull>> >>),
    JObj(<< <<"reason", JStr("a")>>, <<"error", JStr("b")>> >>),
    JObj(<< <<"error", JStr("a")>>, <<"error", JStr("b")>> >>),
    JObj(<< <<"error_code", JNum(1)>>, <<"error_code", JNum(2)>>,
            <<"reason", JStr("x")>> >>),
    JObj(<< <<"error_code", JNum(3001)>> >>),
    JObj(<< >>),
    JArr(<<JNull, JStr("x")>>),
    JArr(<<JNum(3001), JStr("x")>>),
    JArr(<<JStr("x")>>),
    JArr(<<JNum(3001), JStr("x"), JNull>>),
    JArr(<< >>),
    JNull, JStr("x"), JNum(5),
    Malformed,
    [k |-> "aborted"] }

Bodies(T) == ErrorBodies \cup SuccessBodies(T)

Statuses == {200, 204, 302, 399, 400, 401, 404, 499, 500}

ContentTypes ==
    {Nothing} \cup
    {HeaderValue(bytes) :
        bytes \in {application_json, text_plain, text_html, text_html_charset,
                   TEXT_HTML, text_html_opaque}}

\* Everything `send` may yield for a request whose target type is T.
Replies(T) ==
    {SendError} \cup
    {Response(status, ct, body) :
        status \in Statuses, ct \in ContentTypes, body \in Bodies(T)}

\* One reply of each kind of result.
FewReplies(T) ==
    {SendError,
     Response(200, HeaderValue(application_json), Sample(T, "", 1)),
     Response(200, HeaderValue(application_json),
              JObj(<< <<"error_code", JNum(3001)>>,
                      <<"error", JStr("No subscriptions")>> >>)),
     Response(404, HeaderValue(application_json), JObj(<< >>)),
     Response(200, HeaderValue(text_html_charset), Malformed)}

\* The server answers caller c's request.
deliver(c, reply) ==
    /\ wire' = [wire EXCEPT ![c] = reply]
    /\ UNCHANGED <<client, calls, log, budget, debugOut>>

Respond(c) ==
    /\ calls[c].pc = "sent"
    /\ wire[c] = Nothing
    /\ \E reply \in Replies(calls[c].T) : deliver(c, reply)

RespondFew(c) ==
    /\ calls[c].pc = "sent"
    /\ wire[c] = Nothing
    /\ \E reply \in FewReplies(calls[c].T) : deliver(c, reply)

(***************************************************************************)
(* The specifications.                                                     *)
(***************************************************************************)
\* "t*" and "Zé": two tokens for the specifications about calls.
SomeTokens == {<<116, 42>>, <<90, 233>>}

\* '*', 't' (a letter of the text around the token), 'Z' (not one), and the
\* two-byte 'é'.
TokenChars == {42, 116, 90, 233}

\* The texts of exactly n of these characters.
RECURSIVE Texts(_)
Texts(n) ==
    IF n = 0 THEN {<< >>}
    ELSE {Append(s, ch) : s \in Texts(n - 1), ch \in TokenChars}

\* The tokens of SpecDebug: 1 to MaxTokenLen characters.
Tokens == UNION {Texts(n) : n \in 1..MaxTokenLen}

Start(tokens, callers, n) ==
    /\ client \in {new(token) : token \in tokens}
    /\ calls = [c \in callers |-> Idle]
    /\ wire = [c \in callers |-> Nothing]
    /\ log = [ok |-> 0, err |-> 0]
    /\ budget = n
    /\ debugOut = Nothing

\* One call of any endpoint method, answered in any way.
Init == Start(SomeTokens, {1}, 1)

Next ==
    \E c \in {1} :
        \/ members(c)
        \/ membership(c)
        \/ supporters(c)
        \/ support(c)
        \/ extras(c)
        \/ extra(c)
        \/ Respond(c)
        \/ Receive(c)

Spec == Init /\ [][Next]_vars

\* Several callers share the client and call concurrently, again and again.
Callers == 1..NCallers

InitConc == Start(SomeTokens, Callers, MaxCalls)

NextConc ==
    \E c \in Callers :
        \/ membership(c)
        \/ supporters(c)
        \/ RespondFew(c)
        \/ Receive(c)

SpecConc == InitConc /\ [][NextConc]_vars

\* A client of any token is formatted for debugging.
InitDebug == Start(Tokens, {}, 0)

SpecDebug == InitDebug /\ [][Debug]_vars

(***************************************************************************)
(* What the claims speak of.                                               *)
(***************************************************************************)
\* Caller c's call has returned, and `send` had given it a response.
Answered(c) == calls[c].pc = "done" /\ calls[c].sent.k = "response"

lower(b) == IF b >= 65 /\ b <= 90 THEN b + 32 ELSE b

\* The Content-Type header names HTML: it is there and its bytes spell
\* "html" in letters of either case.
IndicatesHtml(ct) ==
    /\ ct # Nothing
    /\ contains([i \in 1..Len(ct.bytes) |-> lower(ct.bytes[i])], html)

Is4xx(status) == status \in 400..499

\* The places of the pairs of object o whose key is one of `keys`.
At(o, keys) == {i \in 1..Len(o) : o[i][1] \in keys}
ValueAt(o, keys) == o[CHOOSE i \in At(o, keys) : TRUE][2]

\* The keys of the success shape of T.
SuccessKeys(T) == UNION {Fields(T)[i].keys : i \in 1..Len(Fields(T))}

\* The body decodes as the structured-error shape.
MatchesErrorShape(body) ==
    body.k \notin {"malformed", "aborted"}
        /\ Deserialize(TStruct("ServerError"), body).ok

\* The body decodes as the target type.
MatchesTarget(T, body) ==
    body.k \notin {"malformed", "aborted"} /\ Deserialize(T, body).ok

\* A JSON object in the error shape, spelled out: one message, under `reason`
\* or under `error`, that is a string; and no `error_code`, or one that is
\* null or a number of 0..65535.
ErrorObject(body) ==
    /\ body.k = "obj"
    /\ Cardinality(At(body.o, {"reason", "error"})) = 1
    /\ ValueAt(body.o, {"reason", "error"}).k = "str"
    /\ Cardinality(At(body.o, {"error_code"})) <= 1
    /\ At(body.o, {"error_code"}) # {} =>
          LET code == ValueAt(body.o, {"error_code"})
          IN  code.k = "null" \/ (code.k = "num" /\ code.n \in 0..65535)

\* A JSON value that is a well-formed value of type ty: an object of a
\* struct type holds every field at most once, each with a value of its type,
\* and lacks only fields that are an Option or have a default.
RECURSIVE WellFormed(_, _)
WellFormed(ty, j) ==
    CASE ty.t = "uint" ->
            j.k = "num" /\ j.n >= 0 /\ (ty.bits = 8 => j.n <= 255)
                /\ (ty.bits = 16 => j.n <= 65535)
      [] ty.t = "String" -> j.k = "str"
      [] ty.t = "bool" -> j.k = "bool"
      [] ty.t = "Option" -> j.k = "null" \/ WellFormed(ty.of, j)
      [] ty.t = "Vec" ->
            j.k = "arr" /\ \A i \in 1..Len(j.a) : WellFormed(ty.of, j.a[i])
      [] ty.t \in {"struct", "Page"} ->
            /\ j.k = "obj"
            /\ \A i \in 1..Len(Fields(ty)) :
                  LET fld == Fields(ty)[i]
                      at == At(j.o, fld.keys)
                  IN  /\ Cardinality(at) <= 1
                      /\ at = {} => (fld.ty.t = "Option" \/ fld.dflt)
                      /\ at # {} => WellFormed(fld.ty, ValueAt(j.o, fld.keys))

\* The value of type ty that a well-formed j provides: every field is the
\* value under its key, an absent Option is None, an absent flag is false.
RECURSIVE Provided(_, _)
Provided(ty, j) ==
    CASE ty.t \in {"uint", "String", "bool"} -> j
      [] ty.t = "Option" -> IF j.k = "null" THEN Nothing ELSE Provided(ty.of, j)
      [] ty.t = "Vec" ->
            [k |-> "vec", a |-> [i \in 1..Len(j.a) |-> Provided(ty.of, j.a[i])]]
      [] ty.t \in {"struct", "Page"} ->
            LET fs == Fields(ty)
                of(n) == fs[CHOOSE i \in 1..Len(fs) : fs[i].field = n]
            IN  [k |-> "struct",
                 f |-> [n \in {fs[i].field : i \in 1..Len(fs)} |->
                          IF At(j.o, of(n).keys) # {}
                          THEN Provided(of(n).ty, ValueAt(j.o, of(n).keys))
                          ELSE IF of(n).dflt THEN JBool(FALSE)
                          ELSE Nothing]]

(***************************************************************************)
(* The claims.                                                             *)
(***************************************************************************)
\* C1: a response whose Content-Type does not name HTML and whose status is
\* in 400..=499 ends the call with Error::Client carrying exactly that
\* status, whatever the body is.
C1_ClientFaultCarriesStatus ==
    \A c \in DOMAIN calls :
        (Answered(c) /\ ~IndicatesHtml(calls[c].sent.content_type)
            /\ Is4xx(calls[c].sent.status))
        => calls[c].result = [kind |-> "Client", status |-> calls[c].sent.status]

\* C1's case: a 499 answer to `members` with a complete JSON page as its
\* body, which would decode, has ended the call.
C1_Witness ==
    \E c \in DOMAIN calls :
        /\ Answered(c)
        /\ calls[c].method = "members"
        /\ calls[c].sent.status = 499
        /\ calls[c].sent.content_type = HeaderValue(application_json)
        /\ MatchesTarget(calls[c].T, calls[c].sent.body)

\* C2: every response whose Content-Type names HTML ends the call with
\* Error::Client(401), whatever its status and body.
C2_HtmlIsUnauthorized ==
    \A c \in DOMAIN calls :
        (Answered(c) /\ IndicatesHtml(calls[c].sent.content_type))
        => calls[c].result = [kind |-> "Client", status |-> 401]

\* C3 as stated: a non-HTML, non-4xx response whose JSON body holds a
\* `reason` or an `error` field and no key of the success shape ends the call
\* with Error::Server, the reason being that field's value, and error_code
\* being Some(code) exactly when the body holds an `error_code`.
C3_AnyReasonFieldIsServerFault ==
    \A c \in DOMAIN calls :
        (Answered(c) /\ ~IndicatesHtml(calls[c].sent.content_type)
            /\ ~Is4xx(calls[c].sent.status)
            /\ calls[c].sent.body.k = "obj"
            /\ At(calls[c].sent.body.o, {"reason", "error"}) # {}
            /\ At(calls[c].sent.body.o, SuccessKeys(calls[c].T)) = {})
        => LET o == calls[c].sent.body.o
               r == calls[c].result
           IN  /\ r.kind = "Server"
               /\ \E i \in At(o, {"reason", "error"}) : r.reason = o[i][2]
               /\ At(o, {"error_code"}) = {} <=> r.error_code = Nothing
               /\ At(o, {"error_code"}) # {} =>
                     \E i \in At(o, {"error_code"}) : r.error_code = o[i][2]

\* C3, amended: the same when the body is an object in the error shape
\* spelled out (one string message under `reason` or `error`; `error_code`
\* absent, null or a number of 0..65535): Error::Server with that message,
\* error_code Some(code) when the body holds a number, None when it holds
\* null or nothing.
C3_ErrorObjectIsServerFault ==
    \A c \in DOMAIN calls :
        (Answered(c) /\ ~IndicatesHtml(calls[c].sent.content_type)
            /\ ~Is4xx(calls[c].sent.status)
            /\ ErrorObject(calls[c].sent.body)
            /\ At(calls[c].sent.body.o, SuccessKeys(calls[c].T)) = {})
        => LET o == calls[c].sent.body.o
               r == calls[c].result
           IN  /\ r.kind = "Server"
               /\ r.reason = ValueAt(o, {"reason", "error"})
               /\ r.error_code =
                     IF At(o, {"error_code"}) = {} THEN Nothing
                     ELSE IF ValueAt(o, {"error_code"}).k = "null" THEN Nothing
                     ELSE ValueAt(o, {"error_code"})

\* C3's case: the API's own "No subscriptions" body, with the message under
\* the legacy key `error` and a code, has ended a call as a server fault.
C3_Witness ==
    \E c \in DOMAIN calls :
        /\ Answered(c)
        /\ calls[c].sent.status = 200
        /\ calls[c].sent.body =
              JObj(<< <<"error_code", JNum(3001)>>,
                      <<"error", JStr("No subscriptions")>> >>)
        /\ calls[c].result.kind = "Server"
        /\ calls[c].result.error_code = JNum(3001)

\* C4 as stated: a non-HTML, non-4xx response whose body is a well-formed
\* success body of the target type ends the call with Ok(T), every field as
\* the body provides it, the items of a page in the body's order, and an
\* absent flag false.
C4_WellFormedBodyIsOk ==
    \A c \in DOMAIN calls :
        (Answered(c) /\ ~IndicatesHtml(calls[c].sent.content_type)
            /\ ~Is4xx(calls[c].sent.status)
            /\ calls[c].sent.body.k = "obj"
            /\ WellFormed(calls[c].T, calls[c].sent.body))
        => calls[c].result =
              [kind |-> "Ok", val |-> Provided(calls[c].T, calls[c].sent.body)]

\* C4, amended: the same when the body does not also match the error shape.
C4_WellFormedBodyNotErrorIsOk ==
    \A c \in DOMAIN calls :
        (Answered(c) /\ ~IndicatesHtml(calls[c].sent.content_type)
            /\ ~Is4xx(calls[c].sent.status)
            /\ calls[c].sent.body.k = "obj"
            /\ WellFormed(calls[c].T, calls[c].sent.body)
            /\ ~ErrorObject(calls[c].sent.body))
        => calls[c].result =
              [kind |-> "Ok", val |-> Provided(calls[c].T, calls[c].sent.body)]

\* C4's case: a membership body without its `subscription_is_cancelled` flag
\* has been decoded.
C4_Witness ==
    \E c \in DOMAIN calls :
        /\ Answered(c)
        /\ calls[c].method = "membership"
        /\ calls[c].sent.body.k = "obj"
        /\ At(calls[c].sent.body.o, {"subscription_is_cancelled"}) = {}
        /\ At(calls[c].sent.body.o, {"subscription_id"}) # {}
        /\ calls[c].result.kind = "Ok"
        /\ calls[c].result.val.f.is_cancelled = JBool(FALSE)
        /\ calls[c].result.val.f.is_cancelled_at_period_end = JBool(TRUE)

C8_SharedClientIsImmutable ==
    [][/\ client' = client
       /\ \A c \in DOMAIN calls :
             /\ calls'[c].pc # "idle"
                   => calls'[c].req.bearer_auth = client.token
             /\ (calls[c].pc = "sent" /\ calls'[c].pc = "done")
                   => /\ calls'[c].sent = wire[c]
                      /\ calls'[c].result = classify(wire[c], calls[c].T)]_vars

\* C8's case: one caller's call has ended while another caller's different
\* response is still on its way.
C8_Witness ==
    \E c, d \in DOMAIN calls :
        /\ calls[c].pc = "done"
        /\ calls[d].pc = "sent"
        /\ wire[d] # Nothing
        /\ wire[d] # calls[c].sent
        /\ calls[c].result # classify(wire[d], calls[d].T)

\* The characters of the Debug text that are not the token's mask.
FrameChars ==
    {debug_open[i] : i \in 1..Len(debug_open)}
        \cup {debug_handle[i] : i \in 1..Len(debug_handle)}
        \cup {debug_token[i] : i \in 1..Len(debug_token)}
        \cup {debug_close[i] : i \in 1..Len(debug_close)}
        \cup {QUOTE}

\* The bytes of a token's UTF-8 text.
RECURSIVE Utf8Bytes(_)
Utf8Bytes(s) ==
    IF s = << >> THEN 0
    ELSE (IF Head(s) < 128 THEN 1 ELSE IF Head(s) < 2048 THEN 2
          ELSE IF Head(s) < 65536 THEN 3 ELSE 4) + Utf8Bytes(Tail(s))

\* The Debug text shows the token field as a quoted run of n stars.
ShowsStars(text, n) ==
    text = debug_open \o debug_handle \o debug_token
              \o <<QUOTE>> \o [i \in 1..n |-> 42] \o <<QUOTE>> \o debug_close

\* C9 as stated: the Debug text shows the token as one '*' per byte and does
\* not contain the token.
C9_DebugNeverContainsToken ==
    debugOut # Nothing =>
        /\ ShowsStars(debugOut.text, Utf8Bytes(client.token))
        /\ ~contains(debugOut.text, client.token)

\* C9, amended: the Debug text shows the token as one '*' per byte, and does
\* not contain a token that has a character other than '*' and the
\* characters of the text around the token field.
C9_DebugMasksToken ==
    debugOut # Nothing =>
        /\ ShowsStars(debugOut.text, Utf8Bytes(client.token))
        /\ (\E i \in 1..Len(client.token) :
                client.token[i] \notin FrameChars \cup {42})
              => ~contains(debugOut.text, client.token)

\* C9's case: a client whose token has a two-byte character and a character
\* foreign to the frame has been formatted.
C9_Witness ==
    /\ debugOut # Nothing
    /\ Len(client.token) = 3
    /\ \E i \in 1..3 : client.token[i] = 233
    /\ \E i \in 1..3 : client.token[i] = 90

====
